---- MODULE Spec2Model ----
(***************************************************************************)
(* Wake / measure / decide / report / interact / save / sleep cycle of the *)
(* low power distance monitor (src/main.py, CircuitPython branch).         *)
(*                                                                         *)
(* The desktop (PyGame) branch of the program is not modelled.  A process   *)
(* starts at the wake-reason detection, runs main() once and ends in deep  *)
(* sleep, in a reset, or stopped by an exception raised at module level.   *)
(*                                                                         *)
(* One call of send_to_adafruit_io() is modelled request by request in a   *)
(* specification of its own (SpecSend); inside the wake cycle the call      *)
(* appears as its boolean result.                                          *)
(*                                                                         *)
(* Units: distances and hysteresis are in tenths of a centimetre (the      *)
(* program's 2.0 cm is 20, its 0.5 cm step is 5); times are in seconds of  *)
(* time.monotonic().                                                       *)
(***************************************************************************)
EXTENDS Integers, Sequences, FiniteSets, TLC

\* ---------------------------------------------------------------- settings
REPORT_INTERVAL == 10800
MIN_REPORT_INTERVAL == 86400
AWAKE_TIME == 30
MAX_STORED_READINGS == 5
DEFAULT_HYSTERESIS == 20
MIN_HYSTERESIS == 5
MAX_HYSTERESIS == 100
\* the 0.5 cm step of the D0 / D1 handlers
HYSTERESIS_STEP == 5
\* current_distance = 100.0 when no reading and no previous reading exist
DEFAULT_DISTANCE == 1000
\* time.sleep(10) before microcontroller.reset() when deep sleep fails
RESET_DELAY == 10

\* ------------------------------------------------------------------ bounds
\* number of wake cycles explored
MaxCycles == 2
\* button presses explored in the interaction windows of one run
MaxPresses == 1
\* failures of the environment (WiFi, HTTP, storage, alarms) explored in one run
MaxFaults == 1
\* seconds of monotonic time that pass in one modelled poll of the window
TickStep == 15
\* monotonic time at the first modelled boot
BootTime == 5
\* seconds after which a button or a reset ends a deep sleep early
EarlyWake == 60
\* samples read_distance() takes in one call (the source takes 10)
MaxSamples == 4

\* values read_distance() can return: -1 (no reading) or a valid median
Distances == {500, 515, 530}
SensorResults == {-1} \cup Distances

\* ----------------------------------------------------------------- helpers
Abs(x) == IF x < 0 THEN -x ELSE x
Max(a, b) == IF a >= b THEN a ELSE b
Min(a, b) == IF a <= b THEN a ELSE b
\* seq[:n]
Take(s, n) == SubSeq(s, 1, Min(n, Len(s)))

\* ---------------------------------------------------------- the state file
\* state.json is absent ("missing"), not JSON ("badjson"), a JSON value that
\* is not an object ("nonrecord"), or a JSON object ("record") whose members
\* are the function `fields`.
NoFields == [k \in {} |-> 0]
FileMissing == [kind |-> "missing", fields |-> NoFields]
FileBadJson == [kind |-> "badjson", fields |-> NoFields]
FileNonRecord == [kind |-> "nonrecord", fields |-> NoFields]
JsonObject(f) == [kind |-> "record", fields |-> f]

\* state files the device may hold at its first modelled boot
InitFiles ==
    { FileMissing, FileBadJson, FileNonRecord,
      JsonObject([k \in {"last_distance"} |-> 500]),
      JsonObject([k \in {"last_report_time"} |-> 3]),
      JsonObject([last_report_time |-> 0, last_distance |-> 500,
                  past_readings |-> <<515, 500, 515, 500, 515>>,
                  hysteresis |-> 95]),
      JsonObject([last_report_time |-> 0, last_distance |-> 0,
                  past_readings |-> <<515, 500, 515, 500, 515, 500>>,
                  hysteresis |-> 200]),
      JsonObject([last_report_time |-> 0, last_distance |-> 500,
                  battery |-> 1]) }

VARIABLES
    pc,                     \* position of the program in the wake cycle
    now,                    \* time.monotonic()
    cycle,                  \* number of the wake cycle (bounds the model)
    file,                   \* content of state.json
    wake_alarm,             \* alarm.wake_alarm: "none", "pin" or "time"
    wake_reason,            \* "none" (Python None), "button" or "timer"
    last_report_time, last_distance, past_readings, hysteresis,
    reading,                \* value returned by read_distance()
    current_time, current_distance,
    time_since_last_report, distance_change, should_report,
    report_success,
    radio_enabled, radio_connected,
    start_time,             \* countdown reference of the interaction window
    presses,                \* button presses handled so far (bounds the model)
    faults,                 \* failures injected so far (bounds the model)
    adjusted,               \* a D0 / D1 press was handled in this window
    time_until_next_check,
    reported_distance,      \* last value the primary feed accepted, 0 = none
    saved,                  \* what the last successful save recorded
    ui_elements,            \* "none" until setup_display_interface() ran
    pressed,                \* buttons handled in the latest poll of the window
    unreported,             \* distance of a due report that has not got through
    dio,                    \* buttons[i]["dio"]: "input", "none" or "released"
    time_alarm,             \* monotonic_time of the TimeAlarm, -1 = not created
    pin_alarms,             \* the PinAlarm objects created for this sleep
    arm_i,                  \* index into buttons of the alarm loop
    arm_errors,             \* buttons whose alarm could not be armed
    call_pc,                \* position inside one send_to_adafruit_io() call
    call_feed,              \* feed_name of the call
    call_value,             \* value of the call
    requests,               \* HTTP requests the call has issued, in order
    statuses,               \* status codes the call has received, in order
    call_raised,            \* an exception was raised inside the call
    result,                 \* value returned by the call
    sensor_type,            \* "VL53L0X" or "VL53L1X", fixed by the sensor init
    rd_pc,                  \* position inside one read_distance() call
    rd_i,                   \* passes of the sample loop that have ended
    readings,               \* the list `readings`
    valid_readings,         \* the list `valid_readings`
    polls,                  \* data_ready polls made for the current sample
    ranging,                \* start_ranging() was called
    pending,                \* distance was read and clear_interrupt() not yet
                            \* called
    taken,                  \* every range value the sensor delivered, in order
    rd_connected,           \* wifi.radio.connected while read_distance() runs
    rd_post,                \* post to the error feed: "none", "sent", "failed"
    rd_result,              \* value returned by read_distance(), as the
                            \* fraction num / den
    bp_pc,                  \* position inside boot.py
    countdown,              \* boot.py's countdown
    bp_checks,              \* the << d1.value, d2.value >> pairs boot.py
                            \* evaluated in its conditions, in order
    storage_readonly,       \* the file system is read-only for the program
    remounts,               \* calls of storage.remount("/", readonly=False)
    iterations              \* passes of boot.py's while loop

\* the buttons and the alarms of the coming deep sleep
alarms == << dio, time_alarm, pin_alarms, arm_i, arm_errors >>
\* one call of send_to_adafruit_io()
call == << call_pc, call_feed, call_value, requests, statuses,
           call_raised, result >>

\* one call of read_distance()
sense == << sensor_type, rd_pc, rd_i, readings, valid_readings, polls,
            ranging, pending, taken, rd_connected, rd_post, rd_result >>

\* boot.py, which runs before the program after a reset
bootpy == << bp_pc, countdown, bp_checks, storage_readonly, remounts,
             iterations >>

\* the wake cycle
cyclevars == << pc, now, cycle, file, wake_alarm, wake_reason,
                last_report_time, last_distance, past_readings, hysteresis,
                reading, current_time, current_distance,
                time_since_last_report, distance_change, should_report,
                report_success, radio_enabled, radio_connected,
                start_time, adjusted, time_until_next_check,
                reported_distance, saved, presses, faults,
                ui_elements, pressed, unreported, alarms >>

vars == << cyclevars, call, sense, bootpy >>

globals == << last_report_time, last_distance, past_readings, hysteresis >>
locals == << reading, current_time, current_distance,
             time_since_last_report, distance_change, should_report,
             report_success, start_time, adjusted,
             time_until_next_check, ui_elements >>
budget == << presses, faults >>
radio == << radio_enabled, radio_connected >>

NoSave == [valid |-> FALSE, last_report_time |-> 0, last_distance |-> 0,
           past_readings |-> << >>, hysteresis |-> 0,
           last_reported_distance |-> 0]

\* the feeds of settings.toml: distance readings and error values
FEED_NAME == "oil-tank-depth"
ERROR_FEED_NAME == "error"

\* setup_buttons() when every DigitalInOut could be created
AllInputs == [b \in 0..2 |-> "input"]

\* no alarm has been created yet
NoAlarms ==
    /\ time_alarm = -1
    /\ pin_alarms = << >>
    /\ arm_i = 0
    /\ arm_errors = {}

\* send_to_adafruit_io() is not running
NoCall ==
    /\ call_pc = "idle"
    /\ call_feed = FEED_NAME
    /\ call_value = 0
    /\ requests = << >>
    /\ statuses = << >>
    /\ call_raised = FALSE
    /\ result = FALSE

\* the two supported sensors
SensorTypes == {"VL53L0X", "VL53L1X"}

\* a value with denominator 1
Whole(v) == [num |-> v, den |-> 1]

\* read_distance() is not running
NoRead ==
    /\ rd_pc = "idle"
    /\ rd_i = 0
    /\ readings = << >>
    /\ valid_readings = << >>
    /\ polls = 0
    /\ ranging = FALSE
    /\ pending = FALSE
    /\ taken = << >>
    /\ rd_connected = FALSE
    /\ rd_post = "none"
    /\ rd_result = Whole(0)

\* the start of the first modelled process: the state file is one of
\* `files`, the clock one of `times`, the sensor one of `types`; c and f
\* are the wake cycles and the failures already spent
MainStart(files, times, c, f, types) ==
    /\ pc = "boot"
    /\ now \in times
    /\ cycle = c
    /\ file \in files
    /\ wake_alarm = "none"
    /\ wake_reason = "none"
    /\ last_report_time = 0
    /\ last_distance = 0
    /\ past_readings = << >>
    /\ hysteresis = DEFAULT_HYSTERESIS
    /\ reading = 0
    /\ current_time = 0
    /\ current_distance = 0
    /\ time_since_last_report = 0
    /\ distance_change = 0
    /\ should_report = FALSE
    /\ report_success = FALSE
    /\ radio_enabled = FALSE
    /\ radio_connected = FALSE
    /\ start_time = 0
    /\ presses = 0
    /\ faults = f
    /\ adjusted = FALSE
    /\ time_until_next_check = 0
    /\ reported_distance = 0
    /\ saved = NoSave
    /\ ui_elements = "none"
    /\ pressed = {}
    /\ unreported = 0
    /\ dio = AllInputs
    /\ NoAlarms
    /\ NoCall
    /\ sensor_type \in types
    /\ NoRead

\* boot.py has run and made the file system writable
BootPyDone ==
    /\ bp_pc = "done"
    /\ countdown = 0
    /\ bp_checks = << >>
    /\ storage_readonly = FALSE
    /\ remounts = 1
    /\ iterations = 0

BootWith(files, times, c, f, types) ==
    MainStart(files, times, c, f, types) /\ BootPyDone

\* the same with the VL53L0X, the sensor that is tried first
Boot(files, times, c, f) == BootWith(files, times, c, f, {"VL53L0X"})

Init == Boot(InitFiles, {BootTime}, 1, 0)

\* ------------------------------------------------------------- wake reason
WakeReasonOf(alarm, run_reason) ==
    IF alarm = "pin" THEN "button"
    ELSE IF alarm = "time" THEN "timer"
    ELSE "none"

\* module start: neither the VL53L0X nor the VL53L1X can be initialised and
\* the second except clause re-raises; the statement is outside every try,
\* so the program ends with the exception
SensorInitRaises ==
    /\ pc = "boot"
    /\ faults < MaxFaults
    /\ faults' = faults + 1
    /\ pc' = "crashed"
    /\ UNCHANGED << now, cycle, file, wake_alarm, wake_reason, globals,
                    locals, radio, reported_distance, saved, presses,
                    pressed, unreported, alarms, call, sense, bootpy >>

\* setup_buttons(): a button whose DigitalInOut cannot be created gets
\* dio None
ButtonSetups == { AllInputs, [AllInputs EXCEPT ![1] = "none"] }

\* module start: setup_buttons(), then the wake reason
DetectWake ==
    /\ pc = "boot"
    /\ \E d \in ButtonSetups :
          /\ dio' = d
          /\ faults' = faults + (IF d = AllInputs THEN 0 ELSE 1)
          /\ faults' <= MaxFaults
    /\ \E run_reason \in {"STARTUP", "OTHER"} :
          wake_reason' = WakeReasonOf(wake_alarm, run_reason)
    /\ pc' = "load"
    /\ UNCHANGED << now, cycle, file, wake_alarm, globals, locals, radio,
                    reported_distance, saved, presses, pressed, unreported,
                    time_alarm, pin_alarms, arm_i, arm_errors, call, sense, bootpy >>

\* --------------------------------------------------------------- load state
Has(f, k) == k \in DOMAIN f.fields
Get(f, k, default) == IF Has(f, k) THEN f.fields[k] ELSE default

LoadResult(raised, lrt, ld, pr, hy) ==
    [raised |-> raised, last_report_time |-> lrt, last_distance |-> ld,
     past_readings |-> pr, hysteresis |-> hy]

\* faulty variant: ValueError is missing from the except clause
LoadOutcome_Uncaught(f, cur) ==
    IF f.kind = "missing"
    THEN LoadResult(FALSE, 0, 0, << >>, DEFAULT_HYSTERESIS)
    ELSE IF f.kind \in {"badjson", "nonrecord"}
    THEN LoadResult(TRUE, cur[1], cur[2], cur[3], cur[4])
    ELSE IF ~Has(f, "last_report_time")
    THEN LoadResult(TRUE, cur[1], cur[2], cur[3], cur[4])
    ELSE IF ~Has(f, "last_distance")
    THEN LoadResult(TRUE, f.fields["last_report_time"], cur[2], cur[3], cur[4])
    ELSE LoadResult(FALSE, f.fields["last_report_time"],
                    f.fields["last_distance"],
                    Get(f, "past_readings", << >>),
                    Get(f, "hysteresis", DEFAULT_HYSTERESIS))

\* the members of the state object that the program reads
TrackedFields ==
    {"last_report_time", "last_distance", "past_readings", "hysteresis"}

\* faulty variant: an object with a member other than the tracked ones is
\* treated like an unreadable file
LoadOutcome_Strict(f, cur) ==
    IF f.kind \in {"missing", "badjson"}
    THEN LoadResult(FALSE, 0, 0, << >>, DEFAULT_HYSTERESIS)
    ELSE IF f.kind = "nonrecord"
    THEN LoadResult(TRUE, cur[1], cur[2], cur[3], cur[4])
    ELSE IF ~(DOMAIN f.fields \subseteq TrackedFields)
    THEN LoadResult(FALSE, 0, 0, << >>, DEFAULT_HYSTERESIS)
    ELSE IF ~Has(f, "last_report_time")
    THEN LoadResult(TRUE, cur[1], cur[2], cur[3], cur[4])
    ELSE IF ~Has(f, "last_distance")
    THEN LoadResult(TRUE, f.fields["last_report_time"], cur[2], cur[3], cur[4])
    ELSE LoadResult(FALSE, f.fields["last_report_time"],
                    f.fields["last_distance"],
                    Get(f, "past_readings", << >>),
                    Get(f, "hysteresis", DEFAULT_HYSTERESIS))

\* The try / except around open() and json.load(): `cur` holds the globals
\* before the load.  OSError and ValueError give the default state; a
\* TypeError or KeyError from state[...] is not in the except clause, and
\* the assignments made before it was raised stay.
LoadOutcome(f, cur) ==
    IF f.kind \in {"missing", "badjson"}
    THEN LoadResult(FALSE, 0, 0, << >>, DEFAULT_HYSTERESIS)
    ELSE IF f.kind = "nonrecord"
    THEN LoadResult(TRUE, cur[1], cur[2], cur[3], cur[4])
    ELSE IF ~Has(f, "last_report_time")
    THEN LoadResult(TRUE, cur[1], cur[2], cur[3], cur[4])
    ELSE IF ~Has(f, "last_distance")
    THEN LoadResult(TRUE, f.fields["last_report_time"], cur[2], cur[3], cur[4])
    ELSE LoadResult(FALSE, f.fields["last_report_time"],
                    f.fields["last_distance"],
                    Get(f, "past_readings", << >>),
                    Get(f, "hysteresis", DEFAULT_HYSTERESIS))

LoadState ==
    /\ pc = "load"
    /\ LET r == LoadOutcome(file, globals) IN
          /\ last_report_time' = r.last_report_time
          /\ last_distance' = r.last_distance
          /\ past_readings' = r.past_readings
          /\ hysteresis' = r.hysteresis
          /\ pc' = IF r.raised THEN "crashed" ELSE "measure"
    /\ UNCHANGED << now, cycle, file, wake_alarm, wake_reason, locals, radio,
                    reported_distance, saved, budget, pressed, unreported,
                    alarms, call, sense, bootpy >>

\* ----------------------------------------------------------------- measure
\* faulty variant: the default of 100.0 cm is missing
FallbackDistance_NoDefault(r, ld) == IF r < 0 THEN ld ELSE r

\* current_distance after the sensor-failure fallback
FallbackDistance(r, ld) ==
    IF r < 0 THEN (IF ld > 0 THEN ld ELSE DEFAULT_DISTANCE) ELSE r

Measure ==
    /\ pc = "measure"
    /\ \E r \in SensorResults :
          /\ faults' = faults + (IF r < 0 THEN 1 ELSE 0)
          /\ faults' <= MaxFaults
          /\ reading' = r
          /\ current_distance' = FallbackDistance(r, last_distance)
    /\ current_time' = now
    /\ pc' = "history"
    /\ UNCHANGED << now, cycle, file, wake_alarm, wake_reason, globals,
                    time_since_last_report, distance_change, should_report,
                    report_success, start_time, adjusted,
                    time_until_next_check, radio, reported_distance, saved,
                    presses, ui_elements, pressed, unreported, alarms,
                    call, sense, bootpy >>

\* ------------------------------------------------------------ past readings
\* past_readings.insert(0, last_distance); past_readings[:MAX_STORED_READINGS]
\* faulty variant: the slice to MAX_STORED_READINGS is missing
InsertReading_NoTrim(pr, ld) ==
    IF ld > 0 THEN << ld >> \o pr ELSE pr

InsertReading(pr, ld) ==
    IF ld > 0 THEN Take(<< ld >> \o pr, MAX_STORED_READINGS) ELSE pr

UpdatePastReadings ==
    /\ pc = "history"
    /\ past_readings' = InsertReading(past_readings, last_distance)
    /\ pc' = "decide"
    /\ UNCHANGED << now, cycle, file, wake_alarm, wake_reason,
                    last_report_time, last_distance, hysteresis, locals,
                    radio, reported_distance, saved, budget, pressed,
                    unreported, alarms, call, sense, bootpy >>

\* ------------------------------------------------------------------ decide
DistanceChange(cd, ld) == IF ld > 0 THEN Abs(cd - ld) ELSE 0

\* faulty variant: the wake_reason clause is missing
ShouldReport_NoButton(tslr, dc, hy, wr) ==
    \/ tslr >= REPORT_INTERVAL
    \/ tslr >= MIN_REPORT_INTERVAL
    \/ (dc >= hy /\ dc > 0)

\* faulty variant: the change must exceed hysteresis
ShouldReport_Strict(tslr, dc, hy, wr) ==
    \/ tslr >= REPORT_INTERVAL
    \/ tslr >= MIN_REPORT_INTERVAL
    \/ (dc > hy /\ dc > 0)
    \/ wr = "button"

ShouldReport(tslr, dc, hy, wr) ==
    \/ tslr >= REPORT_INTERVAL
    \/ tslr >= MIN_REPORT_INTERVAL
    \/ (dc >= hy /\ dc > 0)
    \/ wr = "button"

\* the decision, then ui_elements = setup_display_interface(...)
Decide ==
    /\ pc = "decide"
    /\ time_since_last_report' = current_time - last_report_time
    /\ distance_change' = DistanceChange(current_distance, last_distance)
    /\ should_report' = ShouldReport(current_time - last_report_time,
                                     DistanceChange(current_distance, last_distance),
                                     hysteresis, wake_reason)
    /\ ui_elements' = "set"
    /\ pc' = "report"
    /\ UNCHANGED << now, cycle, file, wake_alarm, wake_reason, globals,
                    reading, current_time, current_distance, report_success,
                    start_time, adjusted, time_until_next_check,
                    radio, reported_distance, saved, budget, pressed,
                    unreported, alarms, call, sense, bootpy >>

\* ------------------------------------------------------------------ report
\* the distance that is still owed to the feed after a report attempt: none
\* after a success, the current one when an attempt made because of the
\* change failed
StillUnreported(posted, dc, hy, cd, owed) ==
    IF posted THEN 0
    ELSE IF dc >= hy /\ dc > 0 THEN cd
    ELSE owed

\* faulty variant: the time of every attempt that reached the post is kept
ReportTime_OnAttempt(posted, t, lrt) == t

\* `if report_success: last_report_time = ...`: t after a successful post
ReportTime(posted, t, lrt) == IF posted THEN t ELSE lrt

\* if should_report: connect_wifi(), send_to_adafruit_io(current_distance)
Report ==
    /\ pc = "report"
    /\ IF should_report
       THEN \E wifi_connected \in BOOLEAN, posted \in BOOLEAN :
               /\ faults' = faults + (IF wifi_connected /\ posted THEN 0 ELSE 1)
               /\ faults' <= MaxFaults
               /\ IF wifi_connected
                  THEN /\ report_success' = posted
                       /\ last_report_time' =
                             ReportTime(posted, current_time,
                                        last_report_time)
                       /\ reported_distance' =
                             IF posted THEN current_distance
                             ELSE reported_distance
                       /\ radio_enabled' = FALSE
                       /\ radio_connected' = FALSE
                  ELSE /\ posted = FALSE
                       /\ report_success' = FALSE
                       /\ radio_enabled' = TRUE
                       /\ radio_connected' = FALSE
                       /\ UNCHANGED << last_report_time, reported_distance >>
               /\ unreported' = StillUnreported(posted, distance_change,
                                                hysteresis, current_distance,
                                                unreported)
       ELSE /\ report_success' = FALSE
            /\ UNCHANGED << last_report_time, reported_distance, radio,
                            faults, unreported >>
    /\ pc' = "update_last"
    /\ UNCHANGED << now, cycle, file, wake_alarm, wake_reason,
                    last_distance, past_readings, hysteresis,
                    reading, current_time, current_distance,
                    time_since_last_report, distance_change, should_report,
                    start_time, adjusted, time_until_next_check,
                    saved, presses, ui_elements, pressed, alarms, call, sense, bootpy >>

\* if current_distance > 0: last_distance = current_distance;
\* start_time = time.monotonic()
UpdateLastDistance ==
    /\ pc = "update_last"
    /\ last_distance' = IF current_distance > 0 THEN current_distance
                        ELSE last_distance
    /\ start_time' = now
    /\ pc' = "window"
    /\ UNCHANGED << now, cycle, file, wake_alarm, wake_reason,
                    last_report_time, past_readings, hysteresis,
                    reading, current_time, current_distance,
                    time_since_last_report, distance_change, should_report,
                    report_success, adjusted, time_until_next_check,
                    radio, reported_distance, saved, budget, ui_elements,
                    pressed, unreported, alarms, call, sense, bootpy >>

\* ------------------------------------------------------ interaction window
Decrease(h) == Max(MIN_HYSTERESIS, h - HYSTERESIS_STEP)
Increase(h) == Min(MAX_HYSTERESIS, h + HYSTERESIS_STEP)

\* hysteresis after one pass over the D0 and D1 handlers
AfterButtons(h, handled) ==
    LET h0 == IF 0 \in handled THEN Decrease(h) ELSE h
    IN  IF 1 \in handled THEN Increase(h0) ELSE h0

\* faulty variant: the countdown restarts only after a successful report
CountdownStart_OnSuccess(st, t, handled, posted) ==
    IF 2 \in handled /\ posted THEN t ELSE st

\* faulty variant: every handled button restarts the countdown
CountdownStart_AnyButton(st, t, handled, posted) ==
    IF handled # {} THEN t ELSE st

\* start_time after one poll at time t: the D2 handler ends with
\* start_time = time.monotonic(), the D0 and D1 handlers leave it alone
CountdownStart(st, t, handled, posted) ==
    IF 2 \in handled THEN t ELSE st

\* the D2 handler up to the countdown reset: connect if not connected, post
ForceReport(connect_ok, posted) ==
    LET wifi_connected == radio_connected \/ connect_ok
    IN  /\ radio_connected => connect_ok
        /\ ~wifi_connected => ~posted
        /\ faults' = faults + (IF posted THEN 0 ELSE 1)
        /\ faults' <= MaxFaults
        /\ radio_connected' = wifi_connected
        /\ radio_enabled' = TRUE
        /\ report_success' = IF wifi_connected THEN posted
                             ELSE report_success
        /\ last_report_time' = IF wifi_connected
                               THEN ReportTime(posted, now, last_report_time)
                               ELSE last_report_time
        /\ reported_distance' = IF posted THEN current_distance
                                ELSE reported_distance
        /\ unreported' = IF posted THEN 0 ELSE unreported

\* faulty variant: the D2 handler runs only when no report was sent yet
ForceHandled_OnlyIfUnsent(handled, sr, rs) == 2 \in handled /\ ~rs

\* the D2 handler runs whenever D2 reads pressed: its condition mentions
\* neither should_report nor report_success
ForceHandled(handled, sr, rs) == 2 \in handled

\* one iteration of the while loop: D0, D1 and D2 are sampled in turn; reading
\* the value of button `fail` raises (3: nothing raises) and the except
\* clause of the button handling ends the pass there
WindowTick ==
    /\ pc = "window"
    /\ now - start_time < AWAKE_TIME
    /\ \E fail \in 0..3 :
       \E handled \in SUBSET {b \in 0..2 : dio[b] = "input" /\ b < fail} :
       \E connect_ok \in BOOLEAN, posted \in BOOLEAN :
          /\ fail < 3 => dio[fail] = "input"
          /\ 2 \notin handled => (connect_ok /\ posted)
          /\ presses' = presses + Cardinality(handled)
          /\ presses' <= MaxPresses
          /\ hysteresis' = AfterButtons(hysteresis, handled)
          /\ adjusted' = (adjusted \/ 0 \in handled \/ 1 \in handled)
          /\ pressed' = handled
          /\ IF ForceHandled(handled, should_report, report_success)
             THEN ForceReport(connect_ok, posted)
             ELSE /\ faults' = faults + (IF fail < 3 THEN 1 ELSE 0)
                  /\ faults' <= MaxFaults
                  /\ UNCHANGED << radio, report_success, last_report_time,
                                  reported_distance, unreported >>
          /\ start_time' = CountdownStart(start_time, now, handled, posted)
    /\ now' = now + TickStep
    /\ UNCHANGED << pc, cycle, file, wake_alarm, wake_reason,
                    last_distance, past_readings,
                    reading, current_time, current_distance,
                    time_since_last_report, distance_change, should_report,
                    time_until_next_check, saved, ui_elements, alarms, call, sense, bootpy >>

\* the loop condition fails: AWAKE_TIME has passed since start_time
WindowExit ==
    /\ pc = "window"
    /\ ~(now - start_time < AWAKE_TIME)
    /\ pressed' = {}
    /\ pc' = "save"
    /\ UNCHANGED << now, cycle, file, wake_alarm, wake_reason, globals,
                    locals, radio, reported_distance, saved, budget,
                    unreported, alarms, call, sense, bootpy >>

\* update_countdown() raises: the except clause around the loop ends the
\* window at once
WindowAbort ==
    /\ pc = "window"
    /\ now - start_time < AWAKE_TIME
    /\ faults' = faults + 1
    /\ faults' <= MaxFaults
    /\ pressed' = {}
    /\ pc' = "save"
    /\ UNCHANGED << now, cycle, file, wake_alarm, wake_reason, globals,
                    locals, radio, reported_distance, saved, presses,
                    unreported, alarms, call, sense, bootpy >>

\* -------------------------------------------------------------- save state
\* faulty variant: the record holds last_report_time as it was when the
\* decision was taken, before the report and the window
StateRecord_BeforeWindow(lrt, ld, pr, hy) ==
    JsonObject([last_report_time |-> current_time - time_since_last_report,
                last_distance |-> ld, past_readings |-> pr,
                hysteresis |-> hy])

\* json.dump of the four globals
StateRecord(lrt, ld, pr, hy) ==
    JsonObject([last_report_time |-> lrt, last_distance |-> ld,
                past_readings |-> pr, hysteresis |-> hy])

\* how the save may end: the record is written; open() fails (read-only file
\* system, OSError); json.dump() fails after the open for writing has
\* truncated the file, with an OSError or with another exception
SaveOutcomes == {"written", "open_oserror", "dump_oserror", "dump_error"}

\* faulty variant: `except Exception` is missing after `except OSError`
SaveCaught_OSErrorOnly(outcome) ==
    outcome \in {"open_oserror", "dump_oserror"}

\* `except OSError` followed by `except Exception`: every failure is caught
SaveCaught(outcome) == outcome # "written"

\* state.json after the save
FileAfterSave(f, outcome, record) ==
    IF outcome = "written" THEN record
    ELSE IF outcome = "open_oserror" THEN f
    ELSE FileBadJson

SaveState ==
    /\ pc = "save"
    /\ \E outcome \in SaveOutcomes :
          /\ faults' = faults + (IF outcome = "written" THEN 0 ELSE 1)
          /\ faults' <= MaxFaults
          /\ file' = FileAfterSave(file, outcome,
                                   StateRecord(last_report_time, last_distance,
                                               past_readings, hysteresis))
          /\ saved' = IF outcome = "written"
                      THEN [valid |-> TRUE,
                            last_report_time |-> last_report_time,
                            last_distance |-> last_distance,
                            past_readings |-> past_readings,
                            hysteresis |-> hysteresis,
                            last_reported_distance |-> reported_distance]
                      ELSE saved
          /\ pc' = IF outcome = "written" \/ SaveCaught(outcome) THEN "plan"
                   ELSE "raised"
    /\ UNCHANGED << now, cycle, wake_alarm, wake_reason, globals, locals,
                    radio, reported_distance, presses, pressed, unreported,
                    alarms, call, sense, bootpy >>

\* ------------------------------------------------------------------- sleep
\* faulty variant: a negative value is not replaced
TimeUntilNextCheck_NoFloor(tslr) ==
    Min(REPORT_INTERVAL, MIN_REPORT_INTERVAL - tslr)

TimeUntilNextCheck(tslr) ==
    LET t == Min(REPORT_INTERVAL, MIN_REPORT_INTERVAL - tslr)
    IN  IF t < 0 THEN REPORT_INTERVAL ELSE t

\* module-level values of a freshly started process
FreshProcess ==
    /\ last_report_time' = 0
    /\ last_distance' = 0
    /\ past_readings' = << >>
    /\ hysteresis' = DEFAULT_HYSTERESIS
    /\ wake_reason' = "none"
    /\ reading' = 0
    /\ current_time' = 0
    /\ current_distance' = 0
    /\ time_since_last_report' = 0
    /\ distance_change' = 0
    /\ should_report' = FALSE
    /\ report_success' = FALSE
    /\ start_time' = 0
    /\ adjusted' = FALSE
    /\ time_until_next_check' = 0
    /\ ui_elements' = "none"
    /\ pressed' = {}
    /\ dio' = AllInputs
    /\ time_alarm' = -1
    /\ pin_alarms' = << >>
    /\ arm_i' = 0
    /\ arm_errors' = {}

\* button_configs: D0 is active low, D1 and D2 are active high
ActiveLow(b) == b = 0

\* faulty variant: the alarm triggers on the idle level of the button
AlarmValue_Idle(b) == ActiveLow(b)

\* PinAlarm(value=not button["active_low"])
AlarmValue(b) == ~ActiveLow(b)

\* faulty variant: the digital input is not released
Deinit_Skipped(d, b) == d

\* button["dio"].deinit() when dio is not None
Deinit(d, b) == IF d[b] = "input" THEN [d EXCEPT ![b] = "released"] ELSE d

\* time_until_next_check, the TimeAlarm and the start of
\* `for button in buttons[1:]`
PlanSleep ==
    /\ pc = "plan"
    /\ time_until_next_check' = TimeUntilNextCheck(time_since_last_report)
    /\ time_alarm' = now + TimeUntilNextCheck(time_since_last_report)
    /\ pin_alarms' = << >>
    /\ arm_i' = 1
    /\ pc' = "arm"
    /\ UNCHANGED << now, cycle, file, wake_alarm, wake_reason, globals,
                    reading, current_time, current_distance,
                    time_since_last_report, distance_change, should_report,
                    report_success, start_time, adjusted, ui_elements,
                    radio, reported_distance, saved, budget, pressed,
                    unreported, dio, arm_errors, call, sense, bootpy >>

\* first half of one pass of the alarm loop: the button's digital input is
\* released; if deinit() raises, the button is skipped
ReleaseButton ==
    /\ pc = "arm"
    /\ arm_i <= 2
    /\ \E ok \in BOOLEAN :
          /\ dio[arm_i] # "input" => ok
          /\ faults' = faults + (IF ok THEN 0 ELSE 1)
          /\ faults' <= MaxFaults
          /\ IF ok
             THEN /\ dio' = Deinit(dio, arm_i)
                  /\ pc' = "alarm"
                  /\ UNCHANGED << arm_i, arm_errors >>
             ELSE /\ arm_errors' = arm_errors \cup {arm_i}
                  /\ arm_i' = arm_i + 1
                  /\ UNCHANGED << dio, pc >>
    /\ UNCHANGED << now, cycle, file, wake_alarm, wake_reason, globals,
                    locals, radio, reported_distance, saved, presses,
                    pressed, unreported, time_alarm, pin_alarms, call, sense, bootpy >>

\* second half: alarm.pin.PinAlarm(pin, value, pull=True) is created and
\* appended to pin_alarms; if it raises, the button gets no alarm
CreatePinAlarm ==
    /\ pc = "alarm"
    /\ \E ok \in BOOLEAN :
          /\ faults' = faults + (IF ok THEN 0 ELSE 1)
          /\ faults' <= MaxFaults
          /\ IF ok
             THEN /\ pin_alarms' = Append(pin_alarms,
                                          [pin |-> arm_i,
                                           value |-> AlarmValue(arm_i)])
                  /\ UNCHANGED arm_errors
             ELSE /\ arm_errors' = arm_errors \cup {arm_i}
                  /\ UNCHANGED pin_alarms
    /\ arm_i' = arm_i + 1
    /\ pc' = "arm"
    /\ UNCHANGED << now, cycle, file, wake_alarm, wake_reason, globals,
                    locals, radio, reported_distance, saved, presses,
                    pressed, unreported, dio, time_alarm, call, sense, bootpy >>

\* the display is cleared and alarm.exit_and_deep_sleep_until_alarms is
\* called with the time alarm and the pin alarms that were created
EnterSleep ==
    /\ pc = "arm"
    /\ arm_i = 3
    /\ pc' = "asleep"
    /\ UNCHANGED << now, cycle, file, wake_alarm, wake_reason, globals,
                    locals, radio, reported_distance, saved, budget,
                    pressed, unreported, alarms, call, sense, bootpy >>

\* setting up the alarms or entering deep sleep raised:
\* time.sleep(10); microcontroller.reset()
SleepFailsReset ==
    /\ pc = "plan"
    /\ cycle < MaxCycles
    /\ faults < MaxFaults
    /\ faults' = faults + 1
    /\ cycle' = cycle + 1
    /\ now' = now + RESET_DELAY
    /\ wake_alarm' = "none"
    /\ pc' = "boot"
    /\ FreshProcess
    /\ radio_enabled' = FALSE
    /\ radio_connected' = FALSE
    /\ UNCHANGED << file, reported_distance, saved, presses, unreported,
                    call, sense, bootpy >>

\* seconds the top-level handler waits before it builds the error screen
TRACEBACK_DELAY == 3

\* an exception leaves main() (setup_display_interface() raises, or a step
\* left the program at "raised"): the handler around main() prints it,
\* shows the error screen and calls microcontroller.reset() after the two
\* delays
TopLevelReset ==
    /\ cycle < MaxCycles
    /\ \/ pc = "raised" /\ faults' = faults
       \/ pc = "decide" /\ faults < MaxFaults /\ faults' = faults + 1
    /\ cycle' = cycle + 1
    /\ now' = now + TRACEBACK_DELAY + RESET_DELAY
    /\ wake_alarm' = "none"
    /\ pc' = "boot"
    /\ FreshProcess
    /\ radio_enabled' = FALSE
    /\ radio_connected' = FALSE
    /\ UNCHANGED << file, reported_distance, saved, presses, unreported,
                    call, sense, bootpy >>

\* the time alarm, a button's pin alarm or a reset of the board ends the
\* deep sleep and the program starts again
Wake ==
    /\ pc = "asleep"
    /\ cycle < MaxCycles
    /\ cycle' = cycle + 1
    /\ \E a \in {"time", "pin", "none"} :
          /\ wake_alarm' = a
          /\ a = "pin" => pin_alarms # << >>
          /\ a # "time" => EarlyWake < time_until_next_check
          /\ now' = now + (IF a = "time" THEN time_until_next_check
                           ELSE EarlyWake)
    /\ pc' = "boot"
    /\ FreshProcess
    /\ radio_enabled' = FALSE
    /\ radio_connected' = FALSE
    /\ UNCHANGED << file, reported_distance, saved, budget, unreported,
                    call, sense, bootpy >>

Next ==
    \/ SensorInitRaises
    \/ DetectWake
    \/ LoadState
    \/ Measure
    \/ UpdatePastReadings
    \/ Decide
    \/ Report
    \/ UpdateLastDistance
    \/ WindowTick
    \/ WindowExit
    \/ WindowAbort
    \/ SaveState
    \/ PlanSleep
    \/ ReleaseButton
    \/ CreatePinAlarm
    \/ EnterSleep
    \/ SleepFailsReset
    \/ TopLevelReset
    \/ Wake

Spec == Init /\ [][Next]_vars

\* Runs without failures from a cold start (no state file), one wake cycle
\* longer than Spec explores.
InitNoFaults == Boot({FileMissing}, {BootTime}, 0, MaxFaults)

NextNoFaults ==
    \/ DetectWake
    \/ LoadState
    \/ Measure
    \/ UpdatePastReadings
    \/ Decide
    \/ Report
    \/ UpdateLastDistance
    \/ WindowTick
    \/ WindowExit
    \/ SaveState
    \/ PlanSleep
    \/ ReleaseButton
    \/ CreatePinAlarm
    \/ EnterSleep
    \/ Wake

SpecNoFaults == InitNoFaults /\ [][NextNoFaults]_vars

\* Runs without failures from every state file.
InitFilesNoFaults == Boot(InitFiles, {BootTime}, 1, MaxFaults)
SpecFiles == InitFilesNoFaults /\ [][NextNoFaults]_vars

\* Runs without failures of a device that has been cycling for most of a
\* day without a state file ever written (read-only file system): the
\* monotonic clock is near MIN_REPORT_INTERVAL at the first modelled boot.
LateBootTimes == {80000, 86400, 90000}
InitLate == Boot({FileMissing}, LateBootTimes, 1, MaxFaults)
SpecLate == InitLate /\ [][NextNoFaults]_vars

\* One wake cycle from a cold start, in which every step may fail.  The loop
\* of the interaction window keeps running (each pass ends in a 0.1 s sleep)
\* and is left when its condition fails.
InitOneCycle == Boot({FileMissing}, {BootTime}, MaxCycles, 0)

NextOneCycle ==
    \/ SensorInitRaises
    \/ DetectWake
    \/ LoadState
    \/ Measure
    \/ UpdatePastReadings
    \/ Decide
    \/ Report
    \/ UpdateLastDistance
    \/ WindowTick
    \/ WindowExit
    \/ WindowAbort
    \/ SaveState
    \/ PlanSleep
    \/ ReleaseButton
    \/ CreatePinAlarm
    \/ EnterSleep

SpecOneCycle ==
    /\ InitOneCycle
    /\ [][NextOneCycle]_vars
    /\ WF_vars(WindowTick)
    /\ WF_vars(WindowExit)

\* One wake cycle from every state file, in which every step may fail and
\* the program always takes its next step.
InitAnyFile == Boot(InitFiles, {BootTime}, MaxCycles, 0)

SpecAnyFile ==
    /\ InitAnyFile
    /\ [][NextOneCycle]_vars
    /\ WF_vars(NextOneCycle)


\* ------------------------------------------------------------ read_distance
\* One call of read_distance() on the device, sample by sample.  Ranges are
\* in mm, readings in tenths of a cm, so that raw_range / 10 cm is the same
\* number; round(r, 1) keeps it.
\* range values in mm the sensor may deliver: 3 cm, 40 cm, 42 cm and 850 cm
RawRanges == {30, 400, 420, 8500}

\* range status values of the VL53L1X: 0 is a good measurement
RangeStatuses == {0, 2}

\* `for _ in range(10)` around the data_ready poll
POLL_TRIES == 10

\* sensor_out_of_range in cm: 400, set to 800 when the VL53L1X is found
OutOfRange(type) == IF type = "VL53L1X" THEN 800 ELSE 400

\* raw_range >= sensor_out_of_range * 10: the sample is skipped with
\* `continue`
Skipped(type, raw) == raw >= OutOfRange(type) * 10

\* 5 < int(reading) < sensor_out_of_range
InValidRange(type, r) == 5 < r \div 10 /\ r \div 10 < OutOfRange(type)

RECURSIVE Sum(_)
Sum(q) == IF q = << >> THEN 0 ELSE Head(q) + Sum(Tail(q))

Sorted(q) == SortSeq(q, LAMBDA a, b : a < b)

\* faulty variant: the lower of the two middle elements of an even count
MiddleElement_Lower(q) == Sorted(q)[(Len(q) + 1) \div 2]

\* sorted_readings[len(sorted_readings) // 2]
MiddleElement(q) == Sorted(q)[Len(q) \div 2 + 1]

\* the value read_distance() returns after the sample loop
ReadResult(all, valid) ==
    IF valid # << >> THEN Whole(MiddleElement(valid))
    ELSE IF all # << >> THEN [num |-> Sum(all), den |-> Len(all)]
    ELSE Whole(-1)

\* readings.append(reading) and the check that fills valid_readings
Keep(raw) ==
    /\ readings' = Append(readings, raw)
    /\ valid_readings' = IF InValidRange(sensor_type, raw)
                         THEN Append(valid_readings, raw)
                         ELSE valid_readings

\* the pass of the sample loop ends
NextSample ==
    /\ rd_i' = rd_i + 1
    /\ rd_pc' = "sample"

\* the call starts; the radio is connected or not while it runs
ReadBegin ==
    /\ rd_pc = "idle"
    /\ rd_pc' = "sample"
    /\ rd_connected' \in BOOLEAN
    /\ UNCHANGED << bootpy, sensor_type, rd_i, readings, valid_readings, polls,
                    ranging, pending, taken, rd_result, rd_post, cyclevars,
                    call >>

\* one pass of the sample loop with the VL53L0X: sensor.range raises, or
\* delivers a range that is skipped or kept
SampleVL53L0X ==
    /\ rd_pc = "sample"
    /\ sensor_type = "VL53L0X"
    /\ rd_i < MaxSamples
    /\ \/ UNCHANGED << taken, readings, valid_readings >>
       \/ \E raw \in RawRanges :
             /\ taken' = Append(taken, raw)
             /\ IF Skipped(sensor_type, raw)
                THEN UNCHANGED << readings, valid_readings >>
                ELSE Keep(raw)
    /\ NextSample
    /\ UNCHANGED << bootpy, sensor_type, polls, ranging, pending, rd_result,
                    cyclevars, call, rd_connected,
                    rd_post >>

\* VL53L1X: `if not sensor.data_ready: sensor.start_ranging()`
CheckReady ==
    /\ rd_pc = "sample"
    /\ sensor_type = "VL53L1X"
    /\ rd_i < MaxSamples
    /\ \E ready \in BOOLEAN :
          IF ready
          THEN /\ rd_pc' = "check"
               /\ UNCHANGED << ranging, polls >>
          ELSE /\ ranging' = TRUE
               /\ polls' = 0
               /\ rd_pc' = "poll"
    /\ UNCHANGED << bootpy, sensor_type, rd_i, readings, valid_readings, pending,
                    taken, rd_result, cyclevars, call, rd_connected,
                    rd_post >>

\* one pass of the poll loop: time.sleep(0.01), then data_ready is read
Poll ==
    /\ rd_pc = "poll"
    /\ polls < POLL_TRIES
    /\ polls' = polls + 1
    /\ \E ready \in BOOLEAN :
          rd_pc' = IF ready \/ polls' = POLL_TRIES THEN "check" ELSE "poll"
    /\ UNCHANGED << bootpy, sensor_type, rd_i, readings, valid_readings, ranging,
                    pending, taken, rd_result, cyclevars, call, rd_connected,
                    rd_post >>

\* `if not sensor.data_ready: continue`
FinalCheck ==
    /\ rd_pc = "check"
    /\ polls' = 0
    /\ \E ready \in BOOLEAN :
          IF ready
          THEN rd_pc' = "read" /\ UNCHANGED rd_i
          ELSE NextSample
    /\ UNCHANGED << bootpy, sensor_type, readings, valid_readings, ranging, pending,
                    taken, rd_result, cyclevars, call, rd_connected,
                    rd_post >>

\* raw_range = sensor.distance, the status and range checks, and
\* sensor.clear_interrupt() for a sample that passed both
ReadRange ==
    /\ rd_pc = "read"
    /\ \E raw \in RawRanges, status \in RangeStatuses :
          IF status # 0
          THEN /\ pending' = TRUE
               /\ UNCHANGED << taken, readings, valid_readings >>
          ELSE /\ taken' = Append(taken, raw)
               /\ IF Skipped(sensor_type, raw)
                  THEN /\ pending' = TRUE
                       /\ UNCHANGED << readings, valid_readings >>
                  ELSE /\ pending' = FALSE
                       /\ Keep(raw)
    /\ NextSample
    /\ UNCHANGED << bootpy, sensor_type, polls, ranging, rd_result, cyclevars,
                    call, rd_connected, rd_post >>

\* faulty variant: the error post is made without looking at the radio
ErrorPostAttempted_Always(valid, connected) == valid = << >>

\* `if wifi.radio.connected:` in the two branches without a valid reading
ErrorPostAttempted(valid, connected) == valid = << >> /\ connected

\* after the loop: middle element, mean or -1; without a valid reading a
\* message goes to the error feed, and send_to_adafruit_io() returns True or
\* False
ReadReturn ==
    /\ rd_pc = "sample"
    /\ rd_i = MaxSamples
    /\ rd_result' = ReadResult(readings, valid_readings)
    /\ IF ErrorPostAttempted(valid_readings, rd_connected)
       THEN rd_post' \in {"sent", "failed"}
       ELSE rd_post' = "none"
    /\ rd_pc' = "done"
    /\ UNCHANGED << bootpy, sensor_type, rd_i, readings, valid_readings, polls,
                    ranging, pending, taken, rd_connected, cyclevars,
                    call >>

NextRead ==
    \/ ReadBegin
    \/ SampleVL53L0X
    \/ CheckReady
    \/ Poll
    \/ FinalCheck
    \/ ReadRange
    \/ ReadReturn

\* One call of read_distance() with either sensor.
InitRead == BootWith({FileMissing}, {BootTime}, 0, MaxFaults, SensorTypes)
SpecRead == InitRead /\ [][NextRead]_vars


\* ------------------------------------------------------------------ boot.py
\* boot.py after a reset: D1 and D2 are active high, a value of True reads
\* as pressed.
\* faulty variant: both buttons must read pressed
Pressed_Both(d1, d2) == d1 /\ d2

\* d1.value or d2.value
Pressed(d1, d2) == d1 \/ d2

\* the countdown starts at 2
COUNTDOWN_START == 2

\* button_pressed = d1.value or d2.value; if button_pressed: countdown = 2
InitialCheck ==
    /\ bp_pc = "start"
    /\ \E d1 \in BOOLEAN, d2 \in BOOLEAN :
          /\ bp_checks' = Append(bp_checks, << d1, d2 >>)
          /\ IF Pressed(d1, d2)
             THEN countdown' = COUNTDOWN_START /\ bp_pc' = "loop"
             ELSE countdown' = countdown /\ bp_pc' = "remount"
    /\ UNCHANGED << storage_readonly, remounts, iterations, cyclevars, call,
                    sense >>

\* while countdown > 0 and (d1.value or d2.value): the buttons are read only
\* when countdown > 0; the body sleeps a second and counts down
LoopCheck ==
    /\ bp_pc = "loop"
    /\ IF countdown > 0
       THEN \E d1 \in BOOLEAN, d2 \in BOOLEAN :
               /\ bp_checks' = Append(bp_checks, << d1, d2 >>)
               /\ IF Pressed(d1, d2)
                  THEN /\ countdown' = countdown - 1
                       /\ iterations' = iterations + 1
                       /\ bp_pc' = "loop"
                  ELSE /\ bp_pc' = "final"
                       /\ UNCHANGED << countdown, iterations >>
       ELSE /\ bp_pc' = "final"
            /\ UNCHANGED << bp_checks, countdown, iterations >>
    /\ UNCHANGED << storage_readonly, remounts, cyclevars, call, sense >>

\* if countdown == 0 and (d1.value or d2.value): storage stays read-only;
\* the buttons are read only when countdown == 0
FinalHoldCheck ==
    /\ bp_pc = "final"
    /\ IF countdown = 0
       THEN \E d1 \in BOOLEAN, d2 \in BOOLEAN :
               /\ bp_checks' = Append(bp_checks, << d1, d2 >>)
               /\ bp_pc' = IF Pressed(d1, d2) THEN "cleanup" ELSE "remount"
       ELSE /\ bp_pc' = "remount"
            /\ UNCHANGED bp_checks
    /\ UNCHANGED << countdown, storage_readonly, remounts, iterations,
                    cyclevars, call, sense >>

\* storage.remount("/", readonly=False); if it raises, the except clause
\* prints the error and boot.py ends
Remount ==
    /\ bp_pc = "remount"
    /\ remounts' = remounts + 1
    /\ \E ok \in BOOLEAN :
          /\ storage_readonly' = ~ok
          /\ bp_pc' = IF ok THEN "cleanup" ELSE "done"
    /\ UNCHANGED << countdown, bp_checks, iterations, cyclevars, call,
                    sense >>

\* d1.deinit(); d2.deinit()
CleanUp ==
    /\ bp_pc = "cleanup"
    /\ bp_pc' = "done"
    /\ UNCHANGED << countdown, bp_checks, storage_readonly, remounts,
                    iterations, cyclevars, call, sense >>

NextBootPy ==
    \/ InitialCheck
    \/ LoopCheck
    \/ FinalHoldCheck
    \/ Remount
    \/ CleanUp

\* boot.py starts after a reset: the file system is read-only for the
\* program
BootPyStart ==
    /\ bp_pc = "start"
    /\ countdown = 0
    /\ bp_checks = << >>
    /\ storage_readonly = TRUE
    /\ remounts = 0
    /\ iterations = 0

InitBootPy ==
    MainStart({FileMissing}, {BootTime}, 0, MaxFaults, {"VL53L0X"})
        /\ BootPyStart
SpecBootPy == InitBootPy /\ [][NextBootPy]_vars

\* ----------------------------------------------------- send_to_adafruit_io
\* One call of send_to_adafruit_io(value, feed_name), request by request.
\* status codes the server may answer with
Statuses == {200, 201, 404, 500}
Feeds == {FEED_NAME, ERROR_FEED_NAME}

\* places inside the call where an exception can be raised: creating the
\* socket pool and session, the data POST, the feed creation POST, the retry
\* POST, reading and closing a response
Sites == {"session", "post", "create", "retry", "close"}

\* faulty variant: only the try around the requests exists
Caught_RequestsOnly(site) == site \in {"post", "create", "retry", "close"}

\* the try of line 704 spans the whole body, the try of line 727 the
\* requests; both except clauses catch Exception and return False
Caught(site) == site \in Sites

\* faulty variant: any success status counts
Accepted_AnySuccess(status) == status \in {200, 201}

\* return response.status_code == 200
Accepted(status) == status = 200

\* faulty variant: any success status counts
FeedCreated_AnySuccess(status) == status \in {200, 201}

\* if create_response.status_code == 201
FeedCreated(status) == status = 201

DataRequest == [kind |-> "data", feed |-> call_feed, value |-> call_value]
CreateRequest == [kind |-> "create", feed |-> call_feed, value |-> 0]

\* the call returns v
Return(v) ==
    /\ call_pc' = "returned"
    /\ result' = v

\* an exception is raised at `site`
Raise(site) ==
    /\ call_raised' = TRUE
    /\ IF Caught(site)
       THEN Return(FALSE)
       ELSE /\ call_pc' = "escaped"
            /\ UNCHANGED result

\* the call starts: credentials check, SocketPool and Session
SendBegin ==
    /\ call_pc = "idle"
    /\ \E feed \in Feeds, value \in SensorResults,
          credentials \in BOOLEAN, session_ok \in BOOLEAN :
          /\ ~credentials => session_ok
          /\ call_feed' = feed
          /\ call_value' = value
          /\ IF ~credentials
             THEN Return(FALSE) /\ UNCHANGED call_raised
             ELSE IF ~session_ok
             THEN Raise("session")
             ELSE call_pc' = "post" /\ UNCHANGED << call_raised, result >>
    /\ UNCHANGED << requests, statuses, cyclevars, sense, bootpy >>

\* response = requests.post(url, ...); response.close()
PostData ==
    /\ call_pc = "post"
    /\ requests' = Append(requests, DataRequest)
    /\ \/ /\ Raise("post")
          /\ UNCHANGED statuses
       \/ \E status \in Statuses, closed \in BOOLEAN :
             /\ statuses' = Append(statuses, status)
             /\ IF ~closed
                THEN Raise("close")
                ELSE IF status = 404
                THEN call_pc' = "create" /\ UNCHANGED << call_raised, result >>
                ELSE Return(Accepted(status)) /\ UNCHANGED call_raised
    /\ UNCHANGED << call_feed, call_value, cyclevars, sense, bootpy >>

\* create_response = requests.post(create_feed_url, ...)
CreateFeed ==
    /\ call_pc = "create"
    /\ requests' = Append(requests, CreateRequest)
    /\ \/ /\ Raise("create")
          /\ UNCHANGED statuses
       \/ \E status \in Statuses, closed \in BOOLEAN :
             /\ statuses' = Append(statuses, status)
             /\ IF ~closed
                THEN Raise("close")
                ELSE IF FeedCreated(status)
                THEN call_pc' = "retry" /\ UNCHANGED << call_raised, result >>
                ELSE Return(FALSE) /\ UNCHANGED call_raised
    /\ UNCHANGED << call_feed, call_value, cyclevars, sense, bootpy >>

\* the data POST is repeated once after the feed was created
RetryPost ==
    /\ call_pc = "retry"
    /\ requests' = Append(requests, DataRequest)
    /\ \/ /\ Raise("retry")
          /\ UNCHANGED statuses
       \/ \E status \in Statuses, closed \in BOOLEAN :
             /\ statuses' = Append(statuses, status)
             /\ IF ~closed
                THEN Raise("close")
                ELSE Return(Accepted(status)) /\ UNCHANGED call_raised
    /\ UNCHANGED << call_feed, call_value, cyclevars, sense, bootpy >>

NextSend ==
    \/ SendBegin
    \/ PostData
    \/ CreateFeed
    \/ RetryPost

\* one call, made while the wake cycle stands still
SpecSend == InitNoFaults /\ [][NextSend]_vars

\* ================================================================== claims
\* the decision has just been taken (lines 1017-1026 have run, the report
\* has not)
Decided == pc = "report"
Elapsed == current_time - last_report_time
DefaultState ==
    /\ last_report_time = 0
    /\ last_distance = 0
    /\ past_readings = << >>
    /\ hysteresis = DEFAULT_HYSTERESIS

\* C1 (runs without failures): when the measured distance moved by less
\* than hysteresis since the previous cycle but differs from the last
\* successfully reported distance by at least hysteresis, a report is due.
C1_DriftBecomesDue ==
    (Decided /\ reported_distance > 0 /\ last_distance > 0
        /\ Abs(current_distance - last_distance) < hysteresis
        /\ Abs(current_distance - reported_distance) >= hysteresis)
    => should_report

\* C2: should_report is true exactly when the elapsed time reached
\* REPORT_INTERVAL, or reached MIN_REPORT_INTERVAL, or the distance delta is
\* nonzero and at least hysteresis, or the wake reason is button.
C2_IntervalDecision ==
    Decided =>
        (should_report <=>
            \/ Elapsed >= REPORT_INTERVAL
            \/ Elapsed >= MIN_REPORT_INTERVAL
            \/ (distance_change # 0 /\ distance_change >= hysteresis)
            \/ wake_reason = "button")

\* a decision taken on the hysteresis clause alone, at its boundary
C2_Witness ==
    /\ Decided
    /\ should_report
    /\ distance_change = hysteresis
    /\ wake_reason # "button"
    /\ Elapsed < REPORT_INTERVAL

\* C3 (runs without failures): with no time condition and no button
\* wake, the decision compares the distance to last_reported_distance, and
\* to last_distance only when nothing was ever reported.
ReferenceDistance ==
    IF reported_distance > 0 THEN reported_distance ELSE last_distance
ReferenceDelta ==
    IF ReferenceDistance > 0 THEN Abs(current_distance - ReferenceDistance)
    ELSE 0
C3_DeltaFromLastReported ==
    (Decided /\ wake_reason # "button"
        /\ Elapsed < REPORT_INTERVAL /\ Elapsed < MIN_REPORT_INTERVAL)
    => (should_report <=> (ReferenceDelta # 0 /\ ReferenceDelta >= hysteresis))

\* C4: a cycle started by a pin alarm decides should_report = TRUE.
C4_ButtonWakeReports ==
    (Decided /\ wake_reason = "button") => should_report

\* a button wake shortly after the last save, with an unchanged distance
C4_Witness ==
    /\ Decided
    /\ wake_reason = "button"
    /\ last_distance > 0
    /\ current_distance = last_distance
    /\ Elapsed < REPORT_INTERVAL
    /\ should_report

\* C5: once D0 or D1 was handled in the interaction window, hysteresis is
\* within [MIN_HYSTERESIS, MAX_HYSTERESIS].
C5_HysteresisClamped ==
    adjusted => (MIN_HYSTERESIS <= hysteresis /\ hysteresis <= MAX_HYSTERESIS)

\* C6: in every state, and in every record that save has written,
\* past_readings holds at most MAX_STORED_READINGS values and hysteresis is
\* within [MIN_HYSTERESIS, MAX_HYSTERESIS].
C6_DataModelInvariant ==
    /\ Len(past_readings) <= MAX_STORED_READINGS
    /\ MIN_HYSTERESIS <= hysteresis
    /\ hysteresis <= MAX_HYSTERESIS
    /\ saved.valid =>
          /\ Len(saved.past_readings) <= MAX_STORED_READINGS
          /\ MIN_HYSTERESIS <= saved.hysteresis
          /\ saved.hysteresis <= MAX_HYSTERESIS

\* C7: the step that records the previous reading puts it at the front,
\* shifts the others by one and keeps at most MAX_STORED_READINGS of them.
C7_InsertAtFrontBounded ==
    [][ (pc = "history" /\ pc' = "decide" /\ last_distance > 0) =>
           /\ Len(past_readings') =
                 Min(Len(past_readings) + 1, MAX_STORED_READINGS)
           /\ past_readings'[1] = last_distance
           /\ \A i \in 2..Len(past_readings') :
                 past_readings'[i] = past_readings[i - 1] ]_vars

\* a reading was recorded on top of a full history loaded from the file and
\* the oldest value was dropped
C7_Witness ==
    /\ pc = "decide"
    /\ last_distance > 0
    /\ file.kind = "record"
    /\ Has(file, "past_readings")
    /\ Len(file.fields["past_readings"]) = MAX_STORED_READINGS
    /\ Len(past_readings) = MAX_STORED_READINGS
    /\ past_readings[1] = last_distance
    /\ past_readings[MAX_STORED_READINGS] =
          file.fields["past_readings"][MAX_STORED_READINGS - 1]

\* C8: after a save in one cycle, the load of the next cycle yields the
\* saved values of last_report_time, last_distance, last_reported_distance,
\* past_readings and hysteresis.
LoadedReportedDistance == Get(file, "last_reported_distance", last_distance)
C8_SaveLoadRoundTrip ==
    (pc = "measure" /\ saved.valid) =>
        /\ last_report_time = saved.last_report_time
        /\ last_distance = saved.last_distance
        /\ past_readings = saved.past_readings
        /\ hysteresis = saved.hysteresis
        /\ LoadedReportedDistance = saved.last_reported_distance

\* C9: with state.json missing or not JSON, the load raises nothing that
\* escapes and yields the default state.
C9_DefaultOnMissingOrInvalid ==
    file.kind \in {"missing", "badjson"} =>
        /\ pc # "crashed"
        /\ pc = "measure" => DefaultState

\* the load of a file that is not JSON has completed
C9_Witness ==
    /\ pc = "measure"
    /\ file.kind = "badjson"
    /\ DefaultState

\* C10: with a state.json that is JSON but not a record holding
\* last_report_time and last_distance, the load raises nothing that escapes
\* and yields the default state.
InvalidSchema ==
    \/ file.kind = "nonrecord"
    \/ /\ file.kind = "record"
       /\ ~(Has(file, "last_report_time") /\ Has(file, "last_distance"))
C10_DefaultOnInvalidSchema ==
    InvalidSchema =>
        /\ pc # "crashed"
        /\ pc = "measure" => DefaultState

\* the call has returned to its caller
Returned == call_pc = "returned"
\* number of feed creation requests the call has issued
Creations == Cardinality({i \in 1..Len(requests) : requests[i].kind = "create"})

\* C11: within one call, a feed creation request is issued only as the
\* second request, right after a data POST answered 404, and at most once; no
\* call issues more than three requests.  When nothing raised, a first
\* answer of 404 is followed by exactly one creation; a creation answered 201
\* by exactly one retry of the data POST, whose answer alone decides the
\* result (true iff 200); any other answer to the creation ends the call with
\* false and without a retry.
C11_CreateOnceRetryOnce ==
    /\ Len(requests) <= 3
    /\ Creations <= 1
    /\ \A i \in 1..Len(requests) :
          requests[i].kind = "create" => (i = 2 /\ statuses[1] = 404)
    /\ (Returned /\ ~call_raised /\ Len(statuses) >= 1 /\ statuses[1] = 404)
          => (Creations = 1 /\ Len(statuses) >= 2)
    /\ (Returned /\ ~call_raised /\ Len(statuses) >= 2 /\ statuses[2] = 201)
          => /\ Len(requests) = 3
             /\ requests[3] = requests[1]
             /\ result = (statuses[3] = 200)
    /\ (Returned /\ ~call_raised /\ Len(statuses) >= 2 /\ statuses[2] # 201)
          => (Len(requests) = 2 /\ result = FALSE)

\* the retry itself was answered 404 and the call ended there
C11_Witness ==
    /\ Returned
    /\ ~call_raised
    /\ statuses = << 404, 201, 404 >>
    /\ result = FALSE

\* C12: a call whose first POST is answered with a status other than 200
\* and 404 returns false after that single request; a call that returns true
\* after a single request got 200.
C12_OtherStatusFails ==
    Returned =>
        /\ (Len(statuses) >= 1 /\ statuses[1] \notin {200, 404})
              => (result = FALSE /\ Len(requests) = 1)
        /\ (result = TRUE /\ Len(requests) = 1) => statuses = << 200 >>

\* the first POST was answered 201
C12_Witness ==
    /\ Returned
    /\ statuses = << 201 >>
    /\ result = FALSE

\* C13: no exception leaves the call; a call in which an exception was
\* raised at any step returns false.
C13_NeverPropagates ==
    /\ call_pc # "escaped"
    /\ (Returned /\ call_raised) => result = FALSE

\* the session could not be created and the call returned
C13_Witness ==
    /\ Returned
    /\ call_raised
    /\ requests = << >>
    /\ result = FALSE

\* C14: a distance whose report, due because of the change, failed (WiFi
\* or POST) and has not got through since is due again at every later
\* decision at which the measured distance is still that distance.
C14_FailedReportStaysDue ==
    (Decided /\ unreported > 0 /\ current_distance = unreported)
    => should_report

\* the decision of this cycle has been taken
AfterDecision ==
    pc \in {"report", "update_last", "window", "save", "plan", "arm", "alarm",
            "asleep"}

\* C15: in a cycle woken by the timer whose decision is should_report =
\* FALSE the UI is never set up and the interaction window is never entered.
C15_TimerNoReportSkipsWindow ==
    (AfterDecision /\ wake_reason = "timer" /\ ~should_report)
    => (ui_elements = "none" /\ pc # "window")

ArmedPins == {pin_alarms[i].pin : i \in 1..Len(pin_alarms)}

C19_ForceResetsCountdown ==
    [][(pc = "window" /\ pc' = "window" /\ 2 \in pressed')
          => start_time' = now]_vars

\* a forced report late in the window could not connect and restarted the
\* countdown
C19_Witness ==
    /\ pc = "window"
    /\ 2 \in pressed
    /\ ~radio_connected
    /\ start_time > current_time
    /\ now - start_time < AWAKE_TIME

\* C20: a pass of the window loop in which D2 was not handled leaves the
\* countdown reference alone, whatever else was pressed or raised; every
\* pass takes time; once AWAKE_TIME has passed since the reference the only
\* step is to leave the loop; and the window is always left in the end.
C20_WindowTerminates ==
    /\ [][pc = "window" =>
            /\ (pc' = "window" /\ 2 \notin pressed')
                  => start_time' = start_time
            /\ pc' = "window" => now' > now
            /\ now - start_time >= AWAKE_TIME => pc' = "save"]_vars
    /\ (pc = "window") ~> (pc = "save")

\* the window ended AWAKE_TIME after it began although a hysteresis button
\* was handled and a failure occurred on the way
C20_Witness ==
    /\ pc = "save"
    /\ adjusted
    /\ faults > 0
    /\ start_time = current_time
    /\ now - start_time >= AWAKE_TIME
\* ---------------------------------------------------------------------------
\* C21: a D2 press handled in the interaction window attempts a report of the
\* current distance whatever the scheduler decided and whether or not a
\* scheduled report was already sent: the attempt either posts
\* current_distance (last_report_time becomes the time of the press) or fails
ForcedAttempt ==
    \/ faults' > faults
    \/ (last_report_time' = now /\ reported_distance' = current_distance)

C21_ForceReportAlwaysAttempts ==
    [][(pc = "window" /\ 2 \in pressed') => ForcedAttempt]_vars

\* a forced report was posted later than a scheduled report of the same cycle
C21_Witness ==
    /\ pc = "window"
    /\ 2 \in pressed
    /\ should_report
    /\ report_success
    /\ last_report_time > current_time
    /\ reported_distance = current_distance
\* ---------------------------------------------------------------------------
\* C22: when read_distance() returned -1 the cycle goes on with
\* current_distance = last_distance if that is positive and the default
\* 100.0 cm otherwise; current_distance is then strictly positive and the
\* program has not stopped
C22_SensorFailureFallsBack ==
    /\ (pc = "history" /\ reading < 0) =>
          current_distance = (IF last_distance > 0 THEN last_distance
                              ELSE DEFAULT_DISTANCE)
    /\ reading < 0 => (current_distance > 0 /\ pc # "crashed")

\* a cycle whose sensor read failed used the last known distance and reached
\* deep sleep
C22_Witness ==
    /\ pc = "asleep"
    /\ reading < 0
    /\ current_distance # DEFAULT_DISTANCE
    /\ current_distance = last_distance
\* ---------------------------------------------------------------------------
\* C23: a failed write of the state file is not fatal: the in-memory state is
\* unchanged by the failed save and the cycle goes on to compute the next
\* wake, arm the alarms and enter deep sleep
SaveFailed == pc = "save" /\ faults' > faults

C23_SaveFailureNotFatal ==
    /\ [][SaveFailed => (UNCHANGED globals /\ pc' = "plan")]_vars
    /\ (pc = "plan" /\ ~saved.valid) ~> (pc = "asleep")

\* the device sleeps with its alarms armed after a save that failed
C23_Witness ==
    /\ pc = "asleep"
    /\ ~saved.valid
    /\ time_alarm = now + time_until_next_check
    /\ pin_alarms # << >>
\* ---------------------------------------------------------------------------
\* C24: every exception raised anywhere in the wake cycle, the module-level
\* sensor initialisation, wake-reason detection and state loading included,
\* reaches the handler around main(), which restarts the board: the program
\* never ends with an exception
C24_CaughtAtTopLevel == pc # "crashed"

\* ---------------------------------------------------------------------------
\* C25: every wake cycle that has started ends in deep sleep or in a restart
\* of the program, whatever fails
CycleEnded == pc \in {"asleep", "boot"}

C25_CycleEnds == (pc = "load") ~> CycleEnded

\* ---------------------------------------------------------------------------
\* C26: when at least one delivered sample is in range, read_distance()
\* returns the statistical median of the in-range samples - the middle one of
\* an odd number, the mean of the two middle ones of an even number - whatever
\* out-of-range samples were delivered besides
SameValue(a, b) == a.num * b.den = b.num * a.den

InRangeSamples ==
    SelectSeq(taken, LAMBDA r : InValidRange(sensor_type, r))

StatisticalMedian(q) ==
    LET n == Len(q)
        sq == Sorted(q)
    IN  IF n % 2 = 1 THEN Whole(sq[(n + 1) \div 2])
        ELSE [num |-> sq[n \div 2] + sq[n \div 2 + 1], den |-> 2]

IsUpperMiddle(m, q) ==
    LET n == Len(q)
        below == Cardinality({i \in 1..n : q[i] < m})
        upto == Cardinality({i \in 1..n : q[i] <= m})
    IN  /\ \E i \in 1..n : q[i] = m
        /\ below <= n \div 2
        /\ upto > n \div 2

C27_OutOfRangeKeptForMean ==
    /\ valid_readings = InRangeSamples
    /\ readings = taken
    /\ rd_pc = "done" =>
          /\ (InRangeSamples = << >> /\ taken # << >>) =>
                SameValue(rd_result, [num |-> Sum(taken), den |-> Len(taken)])
          /\ rd_result = Whole(-1) => taken = << >>

\* ---------------------------------------------------------------------------
\* C28: with the VL53L1X no sample starts its data_ready check while a
\* distance that was read has not been followed by clear_interrupt(),
\* whether the sample was accepted or rejected
C28_ClearedBeforeNextSample ==
    (sensor_type = "VL53L1X" /\ rd_pc = "sample" /\ rd_i < MaxSamples) =>
        ~pending

\* ---------------------------------------------------------------------------
\* C29: within a wake cycle the steps come in the order load, read sensor,
\* decide, post if due, interaction window, save, compute next wake, sleep;
\* the save comes after the window, so the record on file at deep sleep holds
\* the hysteresis and the last_report_time the window left
StepOrder ==
    { << "boot", "load" >>, << "load", "measure" >>,
      << "measure", "history" >>, << "history", "decide" >>,
      << "decide", "report" >>, << "report", "update_last" >>,
      << "update_last", "window" >>, << "window", "save" >>,
      << "save", "plan" >>, << "plan", "arm" >>, << "arm", "alarm" >>,
      << "alarm", "arm" >>, << "arm", "asleep" >> }

\* the cycle ends early: the program restarts or stops
EndsEarly == pc' \in {"boot", "crashed"}

C30_RadioOffAtSleep == pc = "asleep" => ~radio_enabled

\* ---------------------------------------------------------------------------
\* C31: once the wake reason has been detected, wake_reason is one of
\* startup, button and timer: button after a pin alarm, timer after any other
\* alarm, startup after a boot without wake alarm
C31_WakeReasonSet ==
    pc # "boot" =>
        /\ wake_reason \in {"startup", "button", "timer"}
        /\ wake_reason = "button" <=> wake_alarm = "pin"
        /\ wake_reason = "timer" <=> wake_alarm = "time"

\* ---------------------------------------------------------------------------
\* C32: a state file with unknown members besides last_report_time and
\* last_distance loads: the tracked values come from the file (absent
\* optional ones get their defaults) and the default state is not used
HasExtraFields ==
    /\ file.kind = "record"
    /\ {"last_report_time", "last_distance"} \subseteq DOMAIN file.fields
    /\ DOMAIN file.fields \ TrackedFields # {}

C32_ExtraFieldsIgnored ==
    (pc = "measure" /\ HasExtraFields) =>
        /\ last_report_time = file.fields["last_report_time"]
        /\ last_distance = file.fields["last_distance"]
        /\ past_readings = Get(file, "past_readings", << >>)
        /\ hysteresis = Get(file, "hysteresis", DEFAULT_HYSTERESIS)

\* the file with the member "battery" was loaded with its last_distance
C32_Witness ==
    /\ pc = "measure"
    /\ HasExtraFields
    /\ last_distance = 500
    /\ ~DefaultState

\* ---------------------------------------------------------------------------
\* C33: after the load, last_report_time changes only in a step in which a
\* post of the current distance returned success; as long as no post has
\* succeeded it is the value that was loaded, and the record that is saved
\* holds the value the cycle ended with
LoadedReportTime ==
    LoadOutcome(file, << 0, 0, << >>, DEFAULT_HYSTERESIS >>).last_report_time

BeforeSave ==
    pc \in {"measure", "history", "decide", "report", "update_last",
            "window", "save"}

C33_ReportTimeOnlyOnSuccess ==
    /\ [][(last_report_time' # last_report_time /\ pc # "load") =>
            /\ pc \in {"report", "window"}
            /\ report_success'
            /\ reported_distance' = current_distance]_vars
    /\ []((BeforeSave /\ reported_distance = 0) =>
            last_report_time = LoadedReportTime)
    /\ [](saved.valid => saved.last_report_time = last_report_time)

\* a due report failed and the cycle saved the loaded last_report_time
C33_Witness ==
    /\ pc = "asleep"
    /\ should_report
    /\ ~report_success
    /\ reported_distance = 0
    /\ saved.valid
    /\ saved.last_report_time = last_report_time

\* ---------------------------------------------------------------------------
\* C34: read_distance() posts to the error feed only when the radio is
\* already connected, and what it returns - the mean of the questionable
\* samples or -1 - is the same whether that post succeeded, failed or was not
\* made; the call always returns
FallbackValue ==
    IF readings # << >>
    THEN [num |-> Sum(readings), den |-> Len(readings)]
    ELSE Whole(-1)

C34_ErrorPostBestEffort ==
    /\ rd_post # "none" => rd_connected
    /\ (rd_pc = "done" /\ valid_readings = << >>) =>
          SameValue(rd_result, FallbackValue)
    /\ rd_pc \in {"idle", "sample", "poll", "check", "read", "done"}

\* the error post failed and the mean of the questionable samples came back
C34_Witness ==
    /\ rd_pc = "done"
    /\ rd_post = "failed"
    /\ readings # << >>
    /\ rd_result = [num |-> Sum(readings), den |-> Len(readings)]

\* ---------------------------------------------------------------------------
\* C35: the duration given to the time alarm is strictly positive and at
\* most REPORT_INTERVAL, whatever the elapsed time since the last report
C35_SleepDurationPositive ==
    pc \in {"arm", "alarm", "asleep"} =>
        /\ time_until_next_check > 0
        /\ time_until_next_check <= REPORT_INTERVAL
        /\ time_alarm > now

\* ---------------------------------------------------------------------------
\* C36: after a report succeeded in this cycle the next wake is planned from
\* the time elapsed since that report, not from the elapsed time measured
\* before it
ReportedThisCycle == last_report_time > 0 /\ last_report_time >= current_time

C36_NextWakeFromUpdatedTime ==
    (pc = "asleep" /\ ReportedThisCycle) =>
        time_until_next_check = TimeUntilNextCheck(now - last_report_time)

\* ---------------------------------------------------------------------------
\* C37: a device that has never reported (last_report_time is 0) treats a
\* report as due in its wake cycle, whatever the clock and the wake reason
C37_NeverReportedIsDue ==
    (Decided /\ last_report_time = 0) => should_report

\* ---------------------------------------------------------------------------
\* C38: a cycle whose sensor read failed records and transmits measured
\* values only: the default 100.0 cm is neither posted to the primary feed
\* nor kept as last_distance, and last_distance and past_readings hold values
\* a sensor delivered (or those of the state file)
C38_OnlyMeasuredValues ==
    reading < 0 =>
        /\ last_distance # DEFAULT_DISTANCE
        /\ reported_distance # DEFAULT_DISTANCE
        /\ saved.valid => saved.last_distance # DEFAULT_DISTANCE

\* ---------------------------------------------------------------------------
\* C39: boot.py leaves the storage read-only exactly when D1 or D2 read as
\* pressed at the initial check, at both checks of the countdown and at the
\* final check; in every other run storage.remount("/", readonly=False) is
\* called exactly once, right after the first check that read no button as
\* pressed, and the loop makes at most 2 passes
HeldAt(i) == bp_checks[i][1] \/ bp_checks[i][2]

HoldSustained ==
    /\ Len(bp_checks) = 4
    /\ \A i \in 1..4 : HeldAt(i)

====
